---- MODULE Spec2Model ----
(***************************************************************************)
(* viewfetcher: the upload handler fetch_data (src/api/index.py), the      *)
(* ingestion pipeline process_file (src/viewfetcher/processor.py), the     *)
(* fetchers (src/viewfetcher/fetchers.py) and the upsert-by-URL store      *)
(* (src/viewfetcher/db.py).                                                *)
(*                                                                         *)
(* Python values.  A str is a sequence of tokens; a token is a pair        *)
(* <<text, n>>: T(s) is a piece of text, ID(n) a run of six or more        *)
(* characters of [A-Za-z0-9_-] (a video identifier).  None is a value of   *)
(* its own.  Integers are TLA+ integers.  A float with two decimals        *)
(* (engagement_rate) is kept as the integer number of hundredths.          *)
(***************************************************************************)
EXTENDS Integers, Sequences, FiniteSets, TLC

VARIABLES
  inflight,      \* uploads the clients have yet to send: [filename, sheet, key]
  pc,            \* position of the (single, synchronous) handler
  req,           \* the upload being handled
  rows,          \* process_file: rows returned by _load_records
  ids,           \* process_file: video ids of the YouTube rows, in row order
  indexed_rows,  \* process_file: (video_id, row) pairs
  i,             \* process_file: offset of the next chunk (range(0, len(ids), chunk))
  stats_map,     \* process_file: merged id -> stats
  results,       \* process_file: result dicts
  errors,        \* process_file: error messages
  origin,        \* for each result, the _row_number of the row it was built from
  idx,           \* process_file: rows of other_rows already handled
  calls,         \* log of the remote calls made for this upload
  outcome,       \* how the handler answered the last upload
  db,            \* table results: the committed records, by id
  sess,          \* the session's view of the committed records (identity map)
  pending,       \* records added to the session and not yet flushed
  stored,        \* fetch_data: results already passed to upsert_result
  last,          \* what the last upsert_result call saw and returned
  now            \* datetime.utcnow(), as a counter

vars == <<inflight, pc, req, rows, ids, indexed_rows, i, stats_map, results,
          errors, origin, idx, calls, outcome, db, sess, pending, stored, last, now>>

(***************************************************************************)
(* Strings                                                                 *)
(***************************************************************************)
T(s) == <<s, 0>>
ID(n) == <<"id", n>>
S(s) == <<T(s)>>
None == <<T("None")>>
Empty == <<>>

\* x or y
Or(x, y) == IF x = None \/ x = Empty THEN y ELSE x

\* only None counts as missing
Truthy_NotNone(x) == x # None

Truthy(x) == x # None /\ x # Empty

\* str.lower(), token by token
LowerTok(t) ==
  CASE t[1] = "HTTPS://" -> T("https://")
    [] t[1] = "TIKTOK.COM" -> T("tiktok.com")
    [] t[1] = "YouTube" -> T("youtube")
    [] t[1] = "URL" -> T("url")
    [] t[1] = "Platform" -> T("platform")
    [] t[1] = ".CSV" -> T(".csv")
    [] OTHER -> t

Lower(s) == [k \in 1..Len(s) |-> LowerTok(s[k])]

RECURSIVE LStrip(_)
LStrip(s) == IF s # <<>> /\ Head(s) = T(" ") THEN LStrip(Tail(s)) ELSE s

RECURSIVE RStrip(_)
RStrip(s) ==
  IF s # <<>> /\ s[Len(s)] = T(" ") THEN RStrip(SubSeq(s, 1, Len(s) - 1)) ELSE s

\* str.strip()
Strip(s) == RStrip(LStrip(s))

\* The tokens whose text contains needle
TokensWith(needle) ==
  IF needle = "youtu.be" THEN {"youtu.be/"} ELSE {needle}

\* needle in s
Contains(s, needle) == \E k \in 1..Len(s) : s[k][1] \in TokensWith(needle)

StartsWith(s, prefix) == s # <<>> /\ s[1][1] \in prefix

EndsWith(s, suffix) == s # <<>> /\ s[Len(s)] = T(suffix)

\* The tokens that begin with the characters "http"
HttpTokens == {"http://", "https://"}


(***************************************************************************)
(* dict: a sequence of <<key, value>> pairs in insertion order             *)
(***************************************************************************)
HasKey(d, k) == \E j \in 1..Len(d) : d[j][1] = k

\* d[k] = v
DictSet(d, k, v) ==
  IF HasKey(d, k)
    THEN [j \in 1..Len(d) |-> IF d[j][1] = k THEN <<k, v>> ELSE d[j]]
    ELSE Append(d, <<k, v>>)

\* d.get(k)
DictGet(d, k) ==
  IF HasKey(d, k) THEN d[CHOOSE j \in 1..Len(d) : d[j][1] = k][2] ELSE None

\* record[k] if k < len(record) else None
Cell(record, k) == IF k <= Len(record) THEN record[k] ELSE None

\* {headers[i]: record[i] ...}: a later column of the same name overwrites
RECURSIVE Zip(_, _, _)
Zip(headers, record, k) ==
  IF k = 0 THEN <<>>
  ELSE DictSet(Zip(headers, record, k - 1), headers[k], Cell(record, k))

(***************************************************************************)
(* processor.py: loading.  A sheet is the sequence of the file's rows, the *)
(* header row first; a row is the sequence of its cells.                    *)
(***************************************************************************)
ALLOWED_PLATFORMS == {S("youtube"), S("instagram"), S("tiktok")}

\* csv.DictReader: the first row names the columns, blank lines are skipped
\* Both loaders give [raised, rows]: raised is TRUE for "raise ValueError".
_load_csv(sheet) ==
  IF sheet = <<>> THEN [raised |-> FALSE, rows |-> <<>>]
  ELSE LET data == SelectSeq(Tail(sheet), LAMBDA r : r # <<>>)
       IN  [raised |-> FALSE,
            rows |-> [k \in 1..Len(data) |->
                        Zip(Head(sheet), data[k], Len(Head(sheet)))]]

\* next(rows) raises StopIteration on a sheet with no row at all
_load_xlsx(sheet) ==
  IF sheet = <<>> THEN [raised |-> TRUE, rows |-> <<>>]
  ELSE LET headers == Head(sheet)
           normalized_headers ==
             [k \in 1..Len(headers) |-> Strip(Or(headers[k], Empty))]
           data == Tail(sheet)
       IN  [raised |-> FALSE,
            rows |-> [k \in 1..Len(data) |->
                        Zip(normalized_headers, data[k], Len(normalized_headers))]]

\* instagram.com looked for first
_infer_platform_InstagramFirst(url) ==
  LET url_l == Lower(url)
  IN  IF Contains(url_l, "instagram.com") THEN S("instagram")
      ELSE IF Contains(url_l, "youtube.com") \/ Contains(url_l, "youtu.be")
        THEN S("youtube")
      ELSE IF Contains(url_l, "tiktok.com") THEN S("tiktok")
      ELSE Empty

_infer_platform(url) ==
  LET url_l == Lower(url)
  IN  IF Contains(url_l, "youtube.com") \/ Contains(url_l, "youtu.be")
        THEN S("youtube")
      ELSE IF Contains(url_l, "instagram.com") THEN S("instagram")
      ELSE IF Contains(url_l, "tiktok.com") THEN S("tiktok")
      ELSE Empty

_clean_text(value) ==
  IF value = None THEN None
  ELSE IF Strip(value) = Empty THEN None ELSE Strip(value)

\* row = {str(k).strip().lower(): raw.get(k) for k in raw.keys()}
RECURSIVE LowerKeys(_, _)
LowerKeys(raw, k) ==
  IF k = 0 THEN <<>>
  ELSE DictSet(LowerKeys(raw, k - 1), Lower(Strip(raw[k][1])), raw[k][2])

\* The body of the loop of _load_records for one raw row: the normalized row,
\* or <<>> when the row is skipped (continue).
NormalizeRow(raw, index) ==
  LET row == LowerKeys(raw, Len(raw))
      url == Strip(Or(DictGet(row, S("url")), Empty))
      cell == Lower(Strip(Or(DictGet(row, S("platform")), Empty)))
      platform == IF cell = Empty THEN _infer_platform(url) ELSE cell
  IN  IF url = Empty \/ ~StartsWith(Lower(url), HttpTokens) THEN <<>>
      ELSE IF platform \notin ALLOWED_PLATFORMS THEN <<>>
      ELSE << [platform |-> platform,
               url |-> url,
               creator |-> _clean_text(DictGet(row, S("creator"))),
               campaign_id |-> _clean_text(DictGet(row, S("campaign_id"))),
               posted_at |-> DictGet(row, S("posted_at")),
               notes |-> _clean_text(DictGet(row, S("notes"))),
               row_number |-> index] >>

\* the loop of _load_records: the rows that were not skipped, in order
Normalize(raws) ==
  LET each == [k \in 1..Len(raws) |-> NormalizeRow(raws[k], k)]
      kept == SelectSeq(each, LAMBDA r : r # <<>>)
  IN  [k \in 1..Len(kept) |-> kept[k][1]]

\* _load_records: [raised, rows].  raised is "" when the rows are returned.
_load_records(sheet, filename) ==
  LET name == Lower(filename)
      loaded == IF EndsWith(name, ".csv") THEN _load_csv(sheet)
                ELSE _load_xlsx(sheet)
      normalized == Normalize(loaded.rows)
  IN  IF ~EndsWith(name, ".csv") /\ ~EndsWith(name, ".xlsx")
        THEN [raised |-> "unsupported", rows |-> <<>>]
      ELSE IF loaded.raised \/ loaded.rows = <<>>
        THEN [raised |-> "empty", rows |-> <<>>]
      ELSE IF normalized = <<>>
        THEN [raised |-> "unrecognized", rows |-> <<>>]
      ELSE [raised |-> "", rows |-> normalized]

(***************************************************************************)
(* processor.py: _parse_datetime.  dateutil's parse, on the strings the    *)
(* sheets and the fetchers carry here: kind is "error" (ValueError),       *)
(* "naive" or "aware"; utc is the instant as a UTC datetime; in_range says *)
(* whether that instant is a datetime at all (year 1 to 9999).             *)
(***************************************************************************)
date_parser_parse(value) ==
  CASE value = S("2023-01-15") ->
         [kind |-> "naive", utc |-> S("2023-01-15 00:00 UTC"), in_range |-> TRUE]
    [] value = S("2023-01-15T05:00+05:00") ->
         [kind |-> "aware", utc |-> S("2023-01-15 00:00 UTC"), in_range |-> TRUE]
    [] value = S("0001-01-01T00:00+05:00") ->
         [kind |-> "aware", utc |-> S("0000-12-31 19:00 UTC"), in_range |-> FALSE]
    [] value = S("2024-05-01T00:00:00Z") ->
         [kind |-> "aware", utc |-> S("2024-05-01 00:00 UTC"), in_range |-> TRUE]
    [] value = S("2022-03-04T00:00:00+00:00") ->
         [kind |-> "aware", utc |-> S("2022-03-04 00:00 UTC"), in_range |-> TRUE]
    [] value = S("2023-11-14T22:13:20+00:00") ->
         [kind |-> "aware", utc |-> S("2023-11-14 22:13 UTC"), in_range |-> TRUE]
    [] OTHER -> [kind |-> "error", utc |-> None, in_range |-> TRUE]

\* The value of a call that raised OverflowError
Overflow == S("raise OverflowError")

\* parsed.astimezone(timezone.utc) is outside the try of the function
_parse_datetime(value) ==
  IF value = None THEN None
  ELSE IF Strip(value) = Empty THEN None
  ELSE LET parsed == date_parser_parse(Strip(value))
       IN  IF parsed.kind = "error" THEN None
           ELSE IF parsed.kind = "naive" THEN parsed.utc
           ELSE IF parsed.in_range THEN parsed.utc
           ELSE Overflow

(***************************************************************************)
(* fetchers.py                                                             *)
(***************************************************************************)
\* The alternatives of YOUTUBE_VIDEO_ID_RE that come before the identifier
YOUTUBE_VIDEO_ID_RE == {"v=", "/videos/", "embed/", "youtu.be/", "/shorts/"}

\* extract_youtube_id gives no identifier (None)
NoId == 0

\* re.search: the leftmost prefix that is followed by an identifier
extract_youtube_id(url) ==
  LET hits == {k \in 1..(Len(url) - 1) :
                 url[k][1] \in YOUTUBE_VIDEO_ID_RE /\ url[k + 1][1] = "id"}
  IN  IF hits = {} THEN NoId
      ELSE url[(CHOOSE k \in hits : \A j \in hits : k <= j) + 1][2]

\* int(stats.get(name, 0) or 0): a statistic the item lacks is -1 here
Count(n) == IF n < 0 THEN 0 ELSE n

\* The loop of fetch_youtube_batch_stats over data["items"]: out, a function
\* from the ids of the items; the last item of an id wins.
fetch_youtube_batch_stats(items) ==
  LET entry(item) == [views |-> Count(item.viewCount),
                      likes |-> Count(item.likeCount),
                      comments |-> Count(item.commentCount),
                      creator |-> item.channelTitle,
                      posted_at |-> item.publishedAt]
      final(v) == CHOOSE k \in 1..Len(items) :
                    /\ items[k].id = v
                    /\ \A j \in 1..Len(items) : items[j].id = v => j <= k
  IN  [v \in {items[k].id : k \in 1..Len(items)} |-> entry(items[final(v)])]

\* datetime.fromtimestamp(ts, tz=utc).isoformat()
IsoFromTimestamp(ts) ==
  IF ts = 1700000000 THEN S("2023-11-14T22:13:20+00:00") ELSE S("1970-01-01T00:00:00+00:00")

\* 8 digits: YYYYMMDD at midnight UTC, as an ISO string; anything else: None
_iso_from_upload_date(upload_date) ==
  IF upload_date = None \/ upload_date = Empty THEN None
  ELSE IF upload_date = S("20220304") THEN S("2022-03-04T00:00:00+00:00")
  ELSE None

\* x or y or 0 on counts: a missing count is 0 here
OrInt(x, y) == IF x # 0 THEN x ELSE y

\* fetch_by_ytdlp, after extract_info returned info
fetch_by_ytdlp(info) ==
  [views |-> OrInt(info.view_count, info.views),
   likes |-> OrInt(info.like_count, info.likes),
   comments |-> OrInt(info.comment_count, info.comments),
   creator |-> Or(info.uploader, info.channel),
   posted_at |-> IF info.timestamp # 0 THEN IsoFromTimestamp(info.timestamp)
                 ELSE _iso_from_upload_date(info.upload_date)]

(***************************************************************************)
(* processor.py: process_file                                              *)
(***************************************************************************)
\* chunk = 50
chunk == 50

\* round(n / d, 0) of Python: to the nearest integer, a tie to the even one.
\* (Exact for the counts used here: their ties are binary fractions.)
Round(n, d) ==
  LET q == n \div d
      r == n % d
  IN  IF 2 * r < d THEN q
      ELSE IF 2 * r > d THEN q + 1
      ELSE IF q % 2 = 0 THEN q ELSE q + 1

\* the comments left out
engagement_rate_LikesOnly(views, likes, comments) ==
  IF views > 0 THEN Round(likes * 10000, views) ELSE 0

\* round((likes + comments) / views * 100.0, 2) if views > 0 else 0.0,
\* in hundredths of a percent
engagement_rate(views, likes, comments) ==
  IF views > 0 THEN Round((likes + comments) * 10000, views) ELSE 0

\* stats = {}: every stats.get falls back to its default
NoStats ==
  [views |-> 0, likes |-> 0, comments |-> 0, creator |-> None, posted_at |-> None]

\* stats_map.get(video_id, {})
StatsGet(map, video_id) ==
  IF video_id \in DOMAIN map THEN map[video_id] ELSE NoStats

\* stats_map.update(part)
Update(map, part) ==
  [v \in (DOMAIN map) \cup (DOMAIN part) |->
     IF v \in DOMAIN part THEN part[v] ELSE map[v]]

\* The dict appended to results for a row and its stats.  posted_at is
\* Overflow when _parse_datetime raised.
Result(platform, row, stats) ==
  [platform |-> platform,
   url |-> row.url,
   creator |-> Or(stats.creator, row.creator),
   campaign_id |-> row.campaign_id,
   posted_at |-> _parse_datetime(Or(stats.posted_at, row.posted_at)),
   views |-> stats.views,
   likes |-> stats.likes,
   comments |-> stats.comments,
   engagement_rate |-> engagement_rate(stats.views, stats.likes, stats.comments),
   notes |-> row.notes]

\* row_number = int(row.get("_row_number") or 0); hint = row_number if row_number else idx
\* the position among the Instagram/TikTok rows
Hint_Position(row_number, position) == position

Hint(row_number, position) == IF row_number # 0 THEN row_number ELSE position

yt_rows(rs) == SelectSeq(rs, LAMBDA row : row.platform = S("youtube"))

\* the Instagram rows, then the TikTok rows
other_rows_ByPlatform(rs) ==
  SelectSeq(rs, LAMBDA row : row.platform = S("instagram"))
  \o SelectSeq(rs, LAMBDA row : row.platform = S("tiktok"))

other_rows(rs) ==
  SelectSeq(rs, LAMBDA row : row.platform \in {S("instagram"), S("tiktok")})

\* the rows of yt_rows whose URL gives an identifier
WithId(rs) == SelectSeq(yt_rows(rs), LAMBDA row : extract_youtube_id(row.url) # NoId)

\* ids[i:i + chunk]
Batch(list, offset) ==
  SubSeq(list, offset + 1, IF offset + chunk < Len(list) THEN offset + chunk ELSE Len(list))

\* Error messages, as records of what they name
MissingKeyError == [kind |-> "missing API key", platform |-> S("youtube"), first |-> 0, last |-> 0]

\* the range counted from 0
ChunkError_ZeroBased(offset, batch) ==
  [kind |-> "chunk failed", platform |-> S("youtube"),
   first |-> offset, last |-> offset + Len(batch) - 1]

ChunkError(offset, batch) ==
  [kind |-> "chunk failed", platform |-> S("youtube"),
   first |-> offset + 1, last |-> offset + Len(batch)]

RowError(platform, hint) ==
  [kind |-> "row failed", platform |-> platform, first |-> hint, last |-> hint]

(***************************************************************************)
(* db.py: the table results and upsert_result                              *)
(***************************************************************************)
\* select(Result).where(Result.url == url) on the session: the row of the
\* table with that URL (0: None).  autoflush=False: records that were only
\* added to the session are not in the table yet and are not found.
Existing(table, url) ==
  IF \E k \in 1..Len(table) : table[k].url = url
    THEN CHOOSE k \in 1..Len(table) : table[k].url = url
    ELSE 0

\* creator and posted_at overwritten like the other columns
UpdateExisting_Unconditional(existing, payload, utcnow) ==
  [existing EXCEPT
     !.platform = payload.platform,
     !.views = payload.views,
     !.likes = payload.likes,
     !.comments = payload.comments,
     !.engagement_rate = payload.engagement_rate,
     !.campaign_id = payload.campaign_id,
     !.notes = payload.notes,
     !.creator = payload.creator,
     !.posted_at = payload.posted_at,
     !.fetched_at = utcnow]

\* the branch "if existing:" of upsert_result
UpdateExisting(existing, payload, utcnow) ==
  [existing EXCEPT
     !.platform = payload.platform,
     !.views = payload.views,
     !.likes = payload.likes,
     !.comments = payload.comments,
     !.engagement_rate = payload.engagement_rate,
     !.campaign_id = payload.campaign_id,
     !.notes = payload.notes,
     !.creator = IF Truthy(payload.creator) THEN payload.creator ELSE @,
     !.posted_at = IF Truthy(payload.posted_at) THEN payload.posted_at ELSE @,
     !.fetched_at = utcnow]

\* record = Result(...): the id is given by the table at the flush (0 before)
NewRecord(payload, utcnow) ==
  [id |-> 0,
   platform |-> payload.platform,
   url |-> payload.url,
   creator |-> payload.creator,
   campaign_id |-> payload.campaign_id,
   posted_at |-> payload.posted_at,
   views |-> payload.views,
   likes |-> payload.likes,
   comments |-> payload.comments,
   engagement_rate |-> payload.engagement_rate,
   notes |-> payload.notes,
   fetched_at |-> utcnow]

\* UniqueConstraint("url"): the flush of session.commit() is refused when two
\* rows would carry one URL
UniqueUrl(table) ==
  \A j, k \in 1..Len(table) : table[j].url = table[k].url => j = k

\* The table after the flush: the updated rows, then the added records with
\* the next ids (autoincrement)
Flush(view, added) ==
  view \o [k \in 1..Len(added) |-> [added[k] EXCEPT !.id = Len(view) + k]]

(***************************************************************************)
(* The environment: the uploads the clients send and what the remote       *)
(* services answer.                                                        *)
(***************************************************************************)
MaxRows == 2
MaxUploads == 2
BatchRows == 120

SeqsUpTo(set, n) == UNION {[1..m -> set] : m \in 0..n}

HEADER ==
  <<S("url"), S("platform"), S("creator"), S("campaign_id"), S("posted_at"), S("notes")>>

U_YT1 == <<T("https://"), T("youtu.be/"), ID(1)>>
U_YT2 == <<T("https://"), T("youtube.com"), T("/watch?"), T("v="), ID(2), T("&t=1")>>
U_YT0 == <<T("https://"), T("youtube.com"), T("/c/x")>>
U_IG == <<T("https://"), T("instagram.com"), T("/p/a")>>
U_TT == <<T(" "), T("HTTPS://"), T("TIKTOK.COM"), T("/v"), T(" ")>>
U_BOTH == <<T("https://"), T("instagram.com"), T("/?u="), T("youtube.com")>>
U_FTP == <<T("ftp://"), T("youtu.be/"), ID(3)>>
U_EX == <<T("https://"), T("example.com"), T("/x")>>

\* Rows of a sheet under HEADER
K_YT1 == <<U_YT1, Empty, S("alice"), S("c1"), S("2023-01-15"), S("n1")>>
K_YT2 == <<U_YT2, <<T(" "), T("YouTube"), T(" ")>>, Empty, Empty, S("0001-01-01T00:00+05:00"), Empty>>
K_YT0 == <<U_YT0, Empty, Empty, S("c1"), Empty, Empty>>
K_IG == <<U_IG, Empty, Empty, Empty, S("soon"), Empty>>
K_TT == <<U_TT, S("tiktok"), S("alice"), Empty, S("2023-01-15T05:00+05:00"), S("n1")>>
K_BOTH == <<U_BOTH, Empty, Empty, Empty, Empty, Empty>>
K_FB == <<U_IG, S("facebook"), S("alice"), Empty, Empty, Empty>>
K_FTP == <<U_FTP, S("youtube"), Empty, Empty, Empty, Empty>>
K_NOURL == <<<<T(" ")>>, S("instagram"), Empty, Empty, Empty, Empty>>
K_EX == <<U_EX, <<T(" ")>>, Empty, Empty, Empty, Empty>>
K_EXIG == <<U_EX, S("instagram"), Empty, Empty, Empty, Empty>>
K_IG2 == <<U_IG, S("instagram"), S("carol"), S("c2"), S("0001-01-01T00:00+05:00"), S("n2")>>

RowKinds ==
  {K_YT1, K_YT2, K_YT0, K_IG, K_TT, K_BOTH, K_FB, K_FTP, K_NOURL, K_EX, K_EXIG, K_IG2}

CSV == <<T("data"), T(".csv")>>
KEY == S("key")

Upload(filename, sheet, key) ==
  [filename |-> filename, sheet |-> sheet, youtube_api_key |-> key]

\* every sheet of at most MaxRows rows, with and without a key
SmallUploads ==
  {Upload(CSV, <<HEADER>> \o body, key) :
     body \in SeqsUpTo(RowKinds, MaxRows), key \in {None, KEY}}

\* other file names, keys, headers and row shapes
OddUploads ==
  { Upload(<<T("DATA"), T(".CSV")>>, <<HEADER, K_YT1, K_IG>>, KEY),
    Upload(<<T("book"), T(".xlsx")>>, <<HEADER, K_YT1, K_IG>>, KEY),
    Upload(<<T("book"), T(".xlsx")>>, <<>>, KEY),
    Upload(<<T("book"), T(".xlsx")>>, <<<<S("url"), None>>, <<U_IG>>, <<None, None>>>>, None),
    Upload(CSV, <<>>, KEY),
    Upload(<<T("notes"), T(".txt")>>, <<HEADER, K_YT1, K_IG>>, KEY),
    Upload(<<T(".csv"), T(".txt")>>, <<>>, None),
    Upload(Empty, <<HEADER, K_YT1, K_IG>>, KEY),
    Upload(CSV, <<HEADER, K_YT1, K_IG>>, Empty),
    Upload(CSV, <<HEADER, K_FB, K_IG, K_EX, K_TT>>, None),
    Upload(CSV, <<<<<<T(" "), T("URL")>>, S("Platform"), S("url")>>,
                  <<U_IG, S("tiktok"), U_EX>>,
                  <<>>,
                  <<U_YT1>>>>, KEY) }

\* a sheet of n YouTube rows after one row that is dropped; the last row
\* repeats the identifier of the first under another URL
BatchUrl(k, n) ==
  IF k = n /\ n > chunk
    THEN <<T("https://"), T("youtube.com"), T("/watch?"), T("v="), ID(1)>>
    ELSE <<T("https://"), T("youtu.be/"), ID(k)>>

BatchSheet(n) ==
  <<HEADER, K_FB>> \o
  [k \in 1..n |-> <<BatchUrl(k, n), Empty, Empty, Empty, Empty, Empty>>]

BatchUploads ==
  {Upload(CSV, BatchSheet(n), KEY) : n \in {chunk, chunk + 1, BatchRows}}

\* uploads that meet in the store: the same URL again, one after the other
StoreUploads ==
  { Upload(CSV, <<HEADER, K_IG>>, None),
    Upload(CSV, <<HEADER, K_IG2>>, None),
    Upload(CSV, <<HEADER, K_YT1>>, KEY) }

\* a sheet that mixes the platforms: TikTok, YouTube, a dropped row,
\* Instagram, a YouTube URL without an identifier, the first YouTube row
\* again, TikTok again
MixedUploads ==
  {Upload(CSV, <<HEADER, K_TT, K_YT1, K_EX, K_IG, K_YT0, K_YT1, K_TT>>, KEY)}

Uploads ==
  {<<u>> : u \in SmallUploads \cup OddUploads \cup BatchUploads \cup MixedUploads}
  \cup SeqsUpTo(StoreUploads, MaxUploads)

\* What the statistics endpoint answers for a batch: a failure, an item for
\* every identifier, or items for the even identifiers only, with empty fields
ChunkOutcomes == {"raise", "full", "sparse"}

RemoteItems(batch, answer) ==
  IF answer = "full"
    THEN [k \in 1..Len(batch) |->
            [id |-> batch[k],
             viewCount |-> IF batch[k] % 2 = 1 THEN 3 ELSE 32,
             likeCount |-> batch[k] % 3,
             commentCount |-> 1,
             channelTitle |-> S("chan"),
             publishedAt |-> S("2024-05-01T00:00:00Z")]]
    ELSE LET even == SelectSeq(batch, LAMBDA v : v % 2 = 0)
         IN  [k \in 1..Len(even) |->
                [id |-> even[k], viewCount |-> 0, likeCount |-> 0 - 1,
                 commentCount |-> 2, channelTitle |-> Empty, publishedAt |-> Empty]]

\* What extract_info answers for a URL: info dicts (a missing count is 0)
NoInfo ==
  [view_count |-> 0, views |-> 0, like_count |-> 0, likes |-> 0,
   comment_count |-> 0, comments |-> 0, uploader |-> None, channel |-> None,
   timestamp |-> 0, upload_date |-> None]

Infos ==
  { NoInfo,
    [NoInfo EXCEPT !.view_count = 3, !.like_count = 1, !.comment_count = 1,
                   !.uploader = S("bob"), !.timestamp = 1700000000],
    [NoInfo EXCEPT !.views = 32, !.likes = 2, !.comments = 1,
                   !.channel = S("chan"), !.upload_date = S("20220304")] }

(***************************************************************************)
(* The handler, step by step                                               *)
(***************************************************************************)
NoUpload == Upload(Empty, <<>>, None)

NoCall == [existed |-> FALSE, payload |-> <<>>, before |-> <<>>, after |-> <<>>, at |-> 0]

Answer(status, detail) == [status |-> status, detail |-> detail]

Init ==
  /\ inflight \in Uploads
  /\ pc = "idle"
  /\ req = NoUpload
  /\ rows = <<>>
  /\ ids = <<>>
  /\ indexed_rows = <<>>
  /\ i = 0
  /\ stats_map = <<>>
  /\ results = <<>>
  /\ errors = <<>>
  /\ origin = <<>>
  /\ idx = 0
  /\ calls = <<>>
  /\ outcome = Answer(0, "")
  /\ db = <<>>
  /\ sess = <<>>
  /\ pending = <<>>
  /\ stored = <<>>
  /\ last = NoCall
  /\ now = 1

store == <<db, sess, pending, stored, last, now>>

locals == <<rows, ids, indexed_rows, i, stats_map, results, errors, origin, idx, calls>>

\* fetch_data up to the call of process_file (index.py 74-79)
Receive ==
  /\ pc = "idle"
  /\ inflight # <<>>
  /\ req' = Head(inflight)
  /\ inflight' = Tail(inflight)
  /\ rows' = <<>>
  /\ ids' = <<>>
  /\ indexed_rows' = <<>>
  /\ i' = 0
  /\ stats_map' = <<>>
  /\ results' = <<>>
  /\ errors' = <<>>
  /\ origin' = <<>>
  /\ idx' = 0
  /\ calls' = <<>>
  /\ IF ~Truthy(Head(inflight).filename)
       THEN pc' = "idle" /\ outcome' = Answer(400, "no file")
       ELSE pc' = "load" /\ outcome' = Answer(0, "")
  /\ UNCHANGED store

\* rows = _load_records(file_bytes, filename); a ValueError is answered 400
LoadRecords ==
  /\ pc = "load"
  /\ LET loaded == _load_records(req.sheet, req.filename)
     IN  IF loaded.raised # ""
           THEN /\ pc' = "idle"
                /\ outcome' = Answer(400, loaded.raised)
                /\ rows' = <<>>
           ELSE /\ pc' = "youtube"
                /\ outcome' = outcome
                /\ rows' = loaded.rows
  /\ UNCHANGED <<inflight, req, ids, indexed_rows, i, stats_map, results, errors,
                 origin, idx, calls>>
  /\ UNCHANGED store

\* processor.py 132-146: the YouTube rows, the key, the identifiers
YouTubeBegin ==
  /\ pc = "youtube"
  /\ IF yt_rows(rows) = <<>>
       THEN pc' = "other" /\ UNCHANGED <<errors, ids, indexed_rows>>
       ELSE IF ~Truthy(req.youtube_api_key)
         THEN /\ errors' = Append(errors, MissingKeyError)
              /\ pc' = "other"
              /\ UNCHANGED <<ids, indexed_rows>>
         ELSE /\ indexed_rows' = WithId(rows)
              /\ ids' = [k \in 1..Len(WithId(rows)) |->
                           extract_youtube_id(WithId(rows)[k].url)]
              /\ pc' = "chunk"
              /\ UNCHANGED errors
  /\ UNCHANGED <<inflight, req, rows, i, stats_map, results, origin, idx, calls, outcome>>
  /\ UNCHANGED store

\* one turn of "for i in range(0, len(ids), chunk)"
FetchChunk ==
  /\ pc = "chunk"
  /\ i < Len(ids)
  /\ \E answer \in ChunkOutcomes :
       LET batch == Batch(ids, i)
           part == fetch_youtube_batch_stats(RemoteItems(batch, answer))
       IN  IF answer = "raise"
             THEN /\ errors' = Append(errors, ChunkError(i, batch))
                  /\ stats_map' = stats_map
                  /\ calls' = Append(calls, [api |-> "youtube", offset |-> i,
                                            batch |-> batch, ok |-> FALSE, part |-> <<>>])
             ELSE /\ stats_map' = Update(stats_map, part)
                  /\ errors' = errors
                  /\ calls' = Append(calls, [api |-> "youtube", offset |-> i,
                                            batch |-> batch, ok |-> TRUE, part |-> part])
  /\ i' = i + chunk
  /\ UNCHANGED <<inflight, pc, req, rows, ids, indexed_rows, results, origin, idx, outcome>>
  /\ UNCHANGED store

\* processor.py 155-172: a result for every (video_id, row); an exception of
\* _parse_datetime leaves process_file and fetch_data (answered 500)
BuildYouTube ==
  /\ pc = "chunk"
  /\ i >= Len(ids)
  /\ LET built == [k \in 1..Len(indexed_rows) |->
                     Result(S("youtube"), indexed_rows[k], StatsGet(stats_map, ids[k]))]
     IN  IF \E k \in 1..Len(built) : built[k].posted_at = Overflow
           THEN /\ pc' = "idle"
                /\ outcome' = Answer(500, "OverflowError")
                /\ UNCHANGED <<results, origin>>
           ELSE /\ pc' = "other"
                /\ results' = results \o built
                /\ origin' = origin \o [k \in 1..Len(built) |-> indexed_rows[k].row_number]
                /\ outcome' = outcome
  /\ UNCHANGED <<inflight, req, rows, ids, indexed_rows, i, stats_map, errors, idx, calls>>
  /\ UNCHANGED store

\* one turn of "for idx, row in enumerate(other_rows, start=1)"
FetchRow ==
  /\ pc = "other"
  /\ idx < Len(other_rows(rows))
  /\ LET row == other_rows(rows)[idx + 1]
         hint == Hint(row.row_number, idx + 1)
     IN  \/ \* fetch_metrics raised
            /\ errors' = Append(errors, RowError(row.platform, hint))
            /\ calls' = Append(calls, [api |-> "generic", offset |-> row.row_number,
                                      batch |-> <<>>, ok |-> FALSE, part |-> <<>>])
            /\ UNCHANGED <<results, origin>>
         \/ \E info \in Infos :
              LET built == Result(row.platform, row, fetch_by_ytdlp(info))
              IN  /\ calls' = Append(calls, [api |-> "generic", offset |-> row.row_number,
                                            batch |-> <<>>, ok |-> TRUE, part |-> <<>>])
                  /\ IF built.posted_at = Overflow
                       THEN /\ errors' = Append(errors, RowError(row.platform, hint))
                            /\ UNCHANGED <<results, origin>>
                       ELSE /\ results' = Append(results, built)
                            /\ origin' = Append(origin, row.row_number)
                            /\ errors' = errors
  /\ idx' = idx + 1
  /\ UNCHANGED <<inflight, pc, req, rows, ids, indexed_rows, i, stats_map, outcome>>
  /\ UNCHANGED store

\* return results, errors; fetch_data opens the session (index.py 83-84)
Return ==
  /\ pc = "other"
  /\ idx = Len(other_rows(rows))
  /\ pc' = "store"
  /\ sess' = db
  /\ pending' = <<>>
  /\ stored' = <<>>
  /\ UNCHANGED <<inflight, req, outcome, db, last, now>>
  /\ UNCHANGED locals

\* rec = upsert_result(session, row); stored.append(rec)
UpsertResult ==
  /\ pc = "store"
  /\ Len(stored) < Len(results)
  /\ LET payload == results[Len(stored) + 1]
         existing == Existing(sess, payload.url)
     IN  IF existing # 0
           THEN /\ sess' = [sess EXCEPT ![existing] = UpdateExisting(@, payload, now)]
                /\ pending' = pending
                /\ last' = [existed |-> TRUE, payload |-> payload,
                            before |-> sess[existing],
                            after |-> UpdateExisting(sess[existing], payload, now),
                            at |-> now]
           ELSE /\ pending' = Append(pending, NewRecord(payload, now))
                /\ sess' = sess
                /\ last' = [existed |-> FALSE, payload |-> payload,
                            before |-> <<>>, after |-> NewRecord(payload, now),
                            at |-> now]
  /\ stored' = Append(stored, results[Len(stored) + 1].url)
  /\ now' = now + 1
  /\ UNCHANGED <<inflight, pc, req, outcome, db>>
  /\ UNCHANGED locals

\* the end of "with get_session()": session.commit() flushes the updates and
\* the added records; a refused flush is rolled back and raised (answered 500)
Commit ==
  /\ pc = "store"
  /\ Len(stored) = Len(results)
  /\ IF UniqueUrl(Flush(sess, pending))
       THEN /\ db' = Flush(sess, pending)
            /\ outcome' = Answer(200, "success")
       ELSE /\ db' = db
            /\ outcome' = Answer(500, "IntegrityError")
  /\ pc' = "idle"
  /\ sess' = <<>>
  /\ pending' = <<>>
  /\ UNCHANGED <<inflight, req, stored, last, now>>
  /\ UNCHANGED locals

Next ==
  \/ Receive
  \/ LoadRecords
  \/ YouTubeBegin
  \/ FetchChunk
  \/ BuildYouTube
  \/ FetchRow
  \/ Return
  \/ UpsertResult
  \/ Commit

Spec == Init /\ [][Next]_vars

(***************************************************************************)
(* Properties                                                              *)
(***************************************************************************)
YouTubeCalls == SelectSeq(calls, LAMBDA c : c.api = "youtube")

GenericCalls == SelectSeq(calls, LAMBDA c : c.api = "generic")

Failed(cs) == SelectSeq(cs, LAMBDA c : ~c.ok)

OfKind(kind) == SelectSeq(errors, LAMBDA e : e.kind = kind)

Smaller(a, b) == IF a < b THEN a ELSE b

\* process_file is past its YouTube phase with a key
AfterChunks ==
  /\ pc \in {"other", "store"}
  /\ yt_rows(rows) # <<>>
  /\ req.youtube_api_key \notin {None, Empty}

\* The counts a row of identifier v is due: those of the last answer that
\* carried v, zeros when none did
DueCounts(v) ==
  LET carried == {j \in 1..Len(YouTubeCalls) :
                    YouTubeCalls[j].ok /\ v \in DOMAIN YouTubeCalls[j].part}
      latest == CHOOSE j \in carried : \A k \in carried : k <= j
  IN  IF carried = {} THEN <<0, 0, 0>>
      ELSE <<YouTubeCalls[latest].part[v].views,
             YouTubeCalls[latest].part[v].likes,
             YouTubeCalls[latest].part[v].comments>>

\* C1: with a key, the identifiers are sent in row order in consecutive chunks
\* of at most 50, all but the last of exactly 50, one call after the other;
\* each failed call leaves exactly one error naming the 1-based range of its
\* chunk; the later chunks are still called, and the rows of the chunks that
\* did not fail are in results with the counts that were fetched for them.
C1_ChunkedBatches ==
  LET n == Len(ids)
      yc == YouTubeCalls
      bad == Failed(yc)
      ce == OfKind("chunk failed")
  IN  /\ \A j \in 1..Len(yc) :
           /\ yc[j].offset = 50 * (j - 1)
           /\ yc[j].offset < n
           /\ Len(yc[j].batch) = Smaller(50, n - 50 * (j - 1))
           /\ \A m \in 1..Len(yc[j].batch) : yc[j].batch[m] = ids[50 * (j - 1) + m]
           /\ (50 * j < n => Len(yc[j].batch) = 50)
      /\ Len(ce) = Len(bad)
      /\ \A j \in 1..Len(bad) :
           /\ ce[j].first = bad[j].offset + 1
           /\ ce[j].last = bad[j].offset + Len(bad[j].batch)
      /\ AfterChunks =>
           /\ 50 * Len(yc) >= n
           /\ Len(results) >= n
           /\ \A m \in 1..n :
                yc[((m - 1) \div 50) + 1].ok =>
                  /\ results[m].url = indexed_rows[m].url
                  /\ results[m].platform = S("youtube")
                  /\ <<results[m].views, results[m].likes, results[m].comments>>
                       = DueCounts(ids[m])

\* 120 identifiers went out as 50, 50, 20; only the second call failed
C1_Witness ==
  /\ pc = "store"
  /\ Len(ids) = 120
  /\ Len(YouTubeCalls) = 3
  /\ Len(YouTubeCalls[3].batch) = 20
  /\ YouTubeCalls[1].ok /\ ~YouTubeCalls[2].ok /\ YouTubeCalls[3].ok
  /\ OfKind("chunk failed") = <<[kind |-> "chunk failed", platform |-> S("youtube"),
                                 first |-> 51, last |-> 100]>>
  /\ results[2].views = 32
  /\ results[102].views = 32

\* The raw dicts _load_records loops over for the upload
Loaded ==
  IF EndsWith(Lower(req.filename), ".csv") THEN _load_csv(req.sheet).rows
  ELSE _load_xlsx(req.sheet).rows

\* The positions, among the data rows of the file, of the rows kept with an
\* Instagram or TikTok platform, in file order
OtherPositions ==
  LET each == [p \in 1..Len(Loaded) |-> <<p, NormalizeRow(Loaded[p], p)>>]
      kept == SelectSeq(each, LAMBDA e :
                /\ e[2] # <<>>
                /\ e[2][1].platform \in {S("instagram"), S("tiktok")})
  IN  [k \in 1..Len(kept) |-> kept[k][1]]

\* process_file has returned results and errors
Returned == pc = "store" \/ (pc = "idle" /\ outcome.detail \in {"success", "IntegrityError"})

NoKey ==
  /\ yt_rows(rows) # <<>>
  /\ req.youtube_api_key \in {None, Empty}

\* C2: with YouTube rows and an absent or empty key, errors holds exactly one
\* missing-key message however many YouTube rows there are, no statistics call
\* is made, no result is a YouTube row, and every Instagram/TikTok row of the
\* file is still fetched and gives its result or its error.
C2_MissingKey ==
  (NoKey /\ pc \in {"other", "store"}) =>
    /\ Len(OfKind("missing API key")) = 1
    /\ Len(YouTubeCalls) = 0
    /\ Len(OfKind("chunk failed")) = 0
    /\ \A k \in 1..Len(results) : results[k].platform # S("youtube")
    /\ Len(GenericCalls) = idx
    /\ Len(results) + Len(OfKind("row failed")) = idx
    /\ pc = "store" => idx = Len(OtherPositions)

\* a YouTube row, no key, and an Instagram row that was fetched all the same
C2_Witness ==
  /\ pc = "store"
  /\ NoKey
  /\ errors = <<MissingKeyError>>
  /\ Len(results) = 1
  /\ results[1].platform = S("instagram")
  /\ Len(GenericCalls) = 1

\* C3: once the rows are loaded, process_file returns and never raises,
\* whatever the calls answer, and errors has one entry per failed chunk call,
\* one per failed row fetch, and one more when YouTube rows lack a key.
C3_NeverRaises ==
  /\ outcome.detail # "OverflowError"
  /\ Returned =>
       Len(errors) = Len(Failed(YouTubeCalls)) + Len(Failed(GenericCalls))
                     + (IF NoKey THEN 1 ELSE 0)

\* The platform _load_records gives the data row at position p
PlatformAt(p) == NormalizeRow(Loaded[p], p)[1].platform

\* C4: when the fetch of an Instagram/TikTok row raises, exactly one error is
\* appended, naming the row's platform and its 1-based position among the
\* data rows of the file (the rows dropped before it counted); the results
\* collected so far stay as they are, and the rows after it are still fetched.
C4_RowFailure ==
  [][/\ (pc = "other" /\ idx' = idx + 1 /\ ~calls'[Len(calls')].ok) =>
          /\ results' = results
          /\ errors' = Append(errors,
                         [kind |-> "row failed",
                          platform |-> PlatformAt(OtherPositions[idx + 1]),
                          first |-> OtherPositions[idx + 1],
                          last |-> OtherPositions[idx + 1]])
          /\ pc' = "other"
     /\ (pc = "other" /\ pc' = "store") =>
          Len(GenericCalls) = Len(OtherPositions)]_vars

\* of the data rows 2 (Instagram) and 4 (TikTok), the first failed and the
\* second was fetched after it
C4_Witness ==
  /\ pc = "store"
  /\ Len(Loaded) = 4
  /\ errors = <<[kind |-> "row failed", platform |-> S("instagram"),
                 first |-> 2, last |-> 2]>>
  /\ Len(results) = 1
  /\ results[1].platform = S("tiktok")
  /\ origin = <<4>>

\* C5: results leave out every row whose fetch failed: no YouTube row whose
\* identifier went out in a chunk whose call failed, and no Instagram/TikTok
\* row whose fetch raised, is in results.
C5_FailedRowsOmitted ==
  pc = "store" =>
    /\ \A m \in 1..Len(ids) :
         (AfterChunks /\ ~YouTubeCalls[((m - 1) \div 50) + 1].ok) =>
           \A k \in 1..Len(origin) : origin[k] # indexed_rows[m].row_number
    /\ \A j \in 1..Len(GenericCalls) :
         ~GenericCalls[j].ok =>
           \A k \in 1..Len(origin) : origin[k] # GenericCalls[j].offset

\* C6: every row of _load_records has a non-empty URL starting with "http"
\* (in any case) and a supported platform; a data row with an empty or
\* non-http URL, with a non-blank platform cell outside the supported set, or
\* with a blank platform cell and a URL that classifies to nothing, is in no
\* result and no error; a blank platform is inferred from the URL, youtube
\* before instagram before tiktok.
C6_Normalized ==
  LET data == Loaded
      Get(p, name) == DictGet(LowerKeys(data[p], Len(data[p])), S(name))
      urls == [p \in 1..Len(data) |-> Strip(Or(Get(p, "url"), Empty))]
      cells == [p \in 1..Len(data) |-> Lower(Strip(Or(Get(p, "platform"), Empty)))]
      url(p) == urls[p]
      cell(p) == cells[p]
      http(u) == u # <<>> /\ Lower(u)[1][1] \in {"http://", "https://"}
      has(u, text) == \E k \in 1..Len(u) : Lower(u)[k][1] = text
      classify(u) ==
        IF has(u, "youtube.com") \/ has(u, "youtu.be/") THEN S("youtube")
        ELSE IF has(u, "instagram.com") THEN S("instagram")
        ELSE IF has(u, "tiktok.com") THEN S("tiktok")
        ELSE Empty
      supported == {S("youtube"), S("instagram"), S("tiktok")}
      dropped(p) ==
        \/ url(p) = Empty
        \/ ~http(url(p))
        \/ cell(p) # Empty /\ cell(p) \notin supported
        \/ cell(p) = Empty /\ classify(url(p)) = Empty
  IN  (pc \in {"youtube", "chunk", "other"} \/ (pc = "store" /\ stored = <<>>)) =>
        /\ \A k \in 1..Len(rows) :
             /\ rows[k].url # Empty
             /\ http(rows[k].url)
             /\ rows[k].platform \in supported
             /\ cell(rows[k].row_number) = Empty =>
                  rows[k].platform = classify(rows[k].url)
        /\ \A p \in 1..Len(data) :
             dropped(p) =>
               /\ p \notin {rows[k].row_number : k \in 1..Len(rows)}
               /\ p \notin {origin[k] : k \in 1..Len(origin)}
               /\ p \notin {errors[k].first : k \in {j \in 1..Len(errors) :
                                                    errors[j].kind = "row failed"}}

\* a row of platform facebook was dropped, and the row after it, whose URL
\* names instagram.com and youtube.com, was kept as a YouTube row
C6_Witness ==
  /\ pc = "store"
  /\ Len(Loaded) = 2
  /\ DictGet(Loaded[1], S("platform")) = S("facebook")
  /\ DictGet(Loaded[1], S("url")) = U_IG
  /\ Len(rows) = 1
  /\ rows[1].row_number = 2
  /\ rows[1].url = U_BOTH
  /\ rows[1].platform = S("youtube")

\* C7: process_file raises to its caller exactly when the extension is
\* neither .csv nor .xlsx, the file has no data row, or no row is left after
\* filtering; it then raises before any fetch call, and the unsupported
\* extension is reported apart from the empty input.
C7_TerminalFailures ==
  LET name == Lower(req.filename)
      badext == name[Len(name)] \notin {T(".csv"), T(".xlsx")}
      nodata == ~badext /\ Len(Loaded) = 0
      norows == /\ ~badext
                /\ Len(Loaded) > 0
                /\ \A p \in 1..Len(Loaded) : NormalizeRow(Loaded[p], p) = <<>>
      raised ==
        outcome.detail \in {"unsupported", "empty", "unrecognized", "OverflowError"}
  IN  (pc = "idle" /\ outcome.status # 0 /\ outcome.detail # "no file") =>
        /\ raised <=> (badext \/ nodata \/ norows)
        /\ raised => calls = <<>>
        /\ badext => outcome.detail = "unsupported"
        /\ (nodata \/ norows) => outcome.detail \in {"empty", "unrecognized"}

\* C8: every result, of either path, has engagement_rate equal to
\* (likes + comments) / views * 100 rounded to two decimals when views > 0 and
\* equal to 0.0 when views = 0, and never negative (rates in hundredths).
C8_EngagementRate ==
  \A k \in 1..Len(results) :
    LET r == results[k]
        exact == (r.likes + r.comments) * 10000
        off == r.engagement_rate * r.views - exact
    IN  /\ r.engagement_rate >= 0
        /\ r.views = 0 => r.engagement_rate = 0
        /\ r.views > 0 => (2 * off <= r.views /\ 2 * off >= 0 - r.views)

\* a YouTube result at 3/32 = 9.375 % (stored 9.38) beside an Instagram
\* result with no views
C8_Witness ==
  /\ pc = "store"
  /\ Len(results) = 2
  /\ results[1].platform = S("youtube")
  /\ results[1].views = 32
  /\ results[1].likes + results[1].comments = 3
  /\ results[1].engagement_rate = 938
  /\ results[2].platform = S("instagram")
  /\ results[2].views = 0
  /\ results[2].likes + results[2].comments = 0
  /\ results[2].engagement_rate = 0

\* C9: the store is deduplicated by URL: it never holds two records of one
\* URL, and an upsert for a URL that was upserted before, also earlier in the
\* same session, updates that record and adds no second one, so that the
\* upload is saved and not rejected.
C9_DedupByUrl ==
  /\ UniqueUrl(db)
  /\ UniqueUrl(pending)
  /\ \A k \in 1..Len(pending) : Existing(sess, pending[k].url) = 0
  /\ outcome.detail # "IntegrityError"

\* C10: an upsert for a URL with a stored record overwrites platform, views,
\* likes, comments, engagement_rate, campaign_id and notes with the payload's
\* values whatever they are, overwrites creator and posted_at only with a
\* non-empty value, sets fetched_at to the time of the call, and leaves id
\* and url as they were; the record of the session is the one returned.
C10_UpdateInPlace ==
  last.existed =>
    LET b == last.before
        a == last.after
        p == last.payload
    IN  /\ a.platform = p.platform
        /\ a.views = p.views
        /\ a.likes = p.likes
        /\ a.comments = p.comments
        /\ a.engagement_rate = p.engagement_rate
        /\ a.campaign_id = p.campaign_id
        /\ a.notes = p.notes
        /\ a.creator = (IF p.creator \in {None, Empty} THEN b.creator ELSE p.creator)
        /\ a.posted_at = (IF p.posted_at \in {None, Empty} THEN b.posted_at ELSE p.posted_at)
        /\ a.fetched_at = last.at
        /\ last.at < now
        /\ a.id = b.id
        /\ a.url = b.url
        /\ b.url = p.url
        /\ (pc = "store" /\ stored # <<>>) => sess[b.id] = a

\* a stored record with creator, posted_at, campaign_id and notes met a
\* payload that has none of them: the last two were emptied, the first two kept
C10_Witness ==
  /\ last.existed
  /\ last.payload.creator = None
  /\ last.payload.posted_at = None
  /\ last.payload.campaign_id = None
  /\ last.payload.notes = None
  /\ last.before.creator = S("bob")
  /\ last.before.posted_at # None
  /\ last.before.campaign_id = S("c2")
  /\ last.before.notes = S("n2")
  /\ last.before.views = 3
  /\ last.after.views = 0
  /\ last.after.creator = S("bob")
  /\ last.after.posted_at = last.before.posted_at
  /\ last.after.campaign_id = None
  /\ last.after.fetched_at > last.before.fetched_at

\* The positions, among the data rows of the file, of the rows kept with the
\* platform youtube, in file order
YouTubePositions ==
  LET each == [p \in 1..Len(Loaded) |-> <<p, NormalizeRow(Loaded[p], p)>>]
      kept == SelectSeq(each, LAMBDA e :
                /\ e[2] # <<>>
                /\ e[2][1].platform = S("youtube"))
  IN  [k \in 1..Len(kept) |-> kept[k][1]]

\* results is complete and nothing of it has been stored yet
ResultsReturned == pc = "store" /\ stored = <<>>

\* C11: in the results process_file returns, every YouTube row comes before
\* every Instagram/TikTok row, and inside each of the two groups the rows are
\* in the order of the uploaded file (Instagram and TikTok rows mixed as in
\* the file); every result is built from a kept row of its group, so failed
\* and dropped rows are just missing.
C11_ResultOrder ==
  (pc = "other" \/ ResultsReturned) =>
    LET yt == YouTubePositions
        other == OtherPositions
        IsYt(k) == results[k].platform = S("youtube")
    IN  /\ Len(origin) = Len(results)
        /\ \A k \in 1..Len(results) :
             /\ IsYt(k) => \E m \in 1..Len(yt) : yt[m] = origin[k]
             /\ ~IsYt(k) => \E m \in 1..Len(other) : other[m] = origin[k]
             /\ results[k].platform = PlatformAt(origin[k])
        /\ \A k \in 1..(Len(results) - 1) :
             /\ IsYt(k + 1) => IsYt(k)
             /\ (IsYt(k) <=> IsYt(k + 1)) => origin[k] < origin[k + 1]

\* of the data rows TikTok 1, YouTube 2, Instagram 4, YouTube 6, TikTok 7 the
\* Instagram row failed: results holds rows 2, 6, then 1, 7
C11_Witness ==
  /\ ResultsReturned
  /\ Len(Loaded) = 7
  /\ origin = <<2, 6, 1, 7>>
  /\ results[1].platform = S("youtube")
  /\ results[2].platform = S("youtube")
  /\ results[3].platform = S("tiktok")
  /\ results[4].platform = S("tiktok")
  /\ Len(OfKind("row failed")) = 1

\* process_file has ended for a loaded file: it returned its results, or it
\* raised out of the loop that builds the YouTube results
Ended == ResultsReturned \/ (pc = "idle" /\ outcome.detail = "OverflowError")

\* C12: every kept Instagram/TikTok row gives exactly one entry, a result or
\* an error and never both; with a key, every kept YouTube row whose URL gives
\* an identifier gives exactly one result (also when rows share an
\* identifier), with zero counts when the merged answers lack the identifier;
\* a YouTube row whose URL gives no identifier gives no result and no error,
\* and its URL adds nothing to the identifiers that are sent.
C12_RowAccounting ==
  Ended =>
    LET yt == YouTubePositions
        other == OtherPositions
        ResultsOf(p) == {k \in 1..Len(origin) : origin[k] = p}
        ErrorsOf(p) == {k \in 1..Len(errors) :
                          errors[k].kind = "row failed" /\ errors[k].first = p}
        video_id(p) == extract_youtube_id(NormalizeRow(Loaded[p], p)[1].url)
        sent == SelectSeq(yt, LAMBDA p : video_id(p) # NoId)
    IN  /\ \A m \in 1..Len(other) :
             Cardinality(ResultsOf(other[m])) + Cardinality(ErrorsOf(other[m])) = 1
        /\ Truthy(req.youtube_api_key) =>
             /\ \A m \in 1..Len(yt) :
                  IF video_id(yt[m]) # NoId
                    THEN /\ Cardinality(ResultsOf(yt[m])) = 1
                         /\ \A k \in ResultsOf(yt[m]) :
                              /\ results[k].platform = S("youtube")
                              /\ video_id(yt[m]) \notin DOMAIN stats_map =>
                                   /\ results[k].views = 0
                                   /\ results[k].likes = 0
                                   /\ results[k].comments = 0
                                   /\ results[k].engagement_rate = 0
                    ELSE /\ ResultsOf(yt[m]) = {}
                         /\ ErrorsOf(yt[m]) = {}
             /\ ids = [k \in 1..Len(sent) |-> video_id(sent[k])]
             /\ \A j \in 1..Len(YouTubeCalls) :
                  \A n \in 1..Len(YouTubeCalls[j].batch) :
                    YouTubeCalls[j].batch[n] = ids[YouTubeCalls[j].offset + n]
             /\ Len(errors) = Len(Failed(YouTubeCalls)) + Len(OfKind("row failed"))

====
